---- MODULE Spec2Model ----
(***************************************************************************)
(* GitHubPRMonitor of github_pr_notifier.py: the poll loop (run), one poll *)
(* cycle (check_for_updates), PR discovery (get_user_prs), the per-PR      *)
(* fetch and classification (get_pr_comments) and the notifier             *)
(* (flash_for_event), with the dedup ledger (processed_events) and the     *)
(* watermark (last_check).                                                 *)
(*                                                                         *)
(* Time is counted in abstract ticks; LookBack ticks stand for the hour    *)
(* the constructor looks back.  Strings are TLA+ strings, so the ledger    *)
(* keys are built by the same concatenation as the f-strings of the code.  *)
(* The answers of gh are drawn record by record: a loop of get_pr_comments *)
(* may make any number of passes, each over any record the remote side may *)
(* hold for the subject.  A pass that skips its record changes no variable.*)
(* The clock is observed where the code reads it: each reading is at least *)
(* the one before.                                                         *)
(*                                                                         *)
(* Spec is the monitor against a remote side that may answer anything.     *)
(* LiveSpec is the monitor against a remote side that is followed as       *)
(* state (activities are created and stay, every call succeeds), with      *)
(* fairness, for what the monitor does in the long run.                    *)
(***************************************************************************)
EXTENDS Integers, Sequences, FiniteSets, TLC

\* ------------------------------------------------------------------ bounds
\* The local clock reads StartTime at construction and at most MaxTime later.
MaxTime == 2

\* --------------------------------------------------------- program constants
\* timedelta(hours=1): how far the first watermark lies before the start.
LookBack == 1
\* body[:100] and len(body) > 100.
TruncLimit == 100

\* The clock value at construction: the earliest one whose look-back is >= 0.
StartTime == LookBack

\* self.username, and another author.
username == "me"
Logins == {"me", "bob"}

\* JSON values that are not plain strings: an absent key, and null.
Missing == "<missing>"
Null == "<null>"

\* The open pull requests the remote side may list: (repository, number).
Subjects ==
  { [repository |-> "o/r", number |-> 1],
    [repository |-> "o/r_1", number |-> 2] }

\* Raw ids of comments and reviews (gh node ids contain underscores).
Ids == {"x", "2_x"}

ReviewStates == {"APPROVED", "CHANGES_REQUESTED", "COMMENTED", "DISMISSED"}

RECURSIVE Repeat(_, _)
Repeat(s, n) == IF n = 0 THEN "" ELSE s \o Repeat(s, n - 1)

\* Bodies: a short one, one of exactly TruncLimit characters, one longer.
BodyShort == "hi"
BodyAtLimit == Repeat("a", TruncLimit)
BodyOverLimit == Repeat("a", TruncLimit) \o "b"

\* ------------------------------------------------------------- timestamps
\* A raw timestamp string: "Z" form (wall clock in UTC), "offset" form (wall
\* clock in a zone `off` ticks ahead of UTC), "naive" (no zone designator)
\* and "bad" (not ISO 8601).
Zulu(t) == [form |-> "Z", wall |-> t, off |-> 0]
Offset(w, o) == [form |-> "offset", wall |-> w, off |-> o]
Naive(t) == [form |-> "naive", wall |-> t, off |-> 0]
BadStamp == [form |-> "bad", wall |-> 0, off |-> 0]
\* The key ('createdAt', 'submittedAt') is absent from the record.
MissingStamp == [form |-> "missing", wall |-> 0, off |-> 0]

\* One well-formed timestamp per instant 0..MaxTime: the first and the last in
\* "Z" form, those between in "offset" form.
Stamps ==
  {Zulu(0), Zulu(MaxTime)} \cup { Offset(t + 1, 1) : t \in 1..(MaxTime - 1) }

\* datetime.fromisoformat(s.replace('Z', '+00:00')): the instant in UTC of an
\* aware timestamp.  (Defined for the "Z" and "offset" forms.)
ParseInstant(ts) == ts.wall - ts.off

\* ------------------------------------------------------------ raw records
\* What `gh pr view --json comments` may hold.  The records differ from one
\* plain comment (id "x", by another author, stamped MaxTime, short body) in
\* one respect each: the timestamp, the id, the author, the body, or a defect
\* (an absent key, a null, an unparsable or naive timestamp).
Comment(id, author, createdAt, body) ==
  [id |-> id, author |-> author, createdAt |-> createdAt, body |-> body]

Comments ==
  { Comment("x", "bob", ts, BodyShort) : ts \in Stamps }
  \cup { Comment("2_x", "bob", Zulu(MaxTime), BodyShort) }
  \cup { Comment("x", username, ts, BodyShort) : ts \in {Zulu(0), Zulu(MaxTime)} }
  \cup { Comment("x", "bob", Zulu(MaxTime), b) :
           b \in {BodyAtLimit, BodyOverLimit, Missing, Null} }
  \cup { Comment(Missing, "bob", ts, BodyShort) : ts \in {Zulu(0), Zulu(MaxTime)} }
  \cup { Comment("x", a, Zulu(MaxTime), BodyShort) : a \in {Missing, Null} }
  \cup { Comment("x", "bob", ts, BodyShort) :
           ts \in {MissingStamp, BadStamp, Naive(MaxTime)} }

\* What `gh pr view --json reviews` may hold, built the same way.
Review(id, author, submittedAt, body, state) ==
  [id |-> id, author |-> author, submittedAt |-> submittedAt, body |-> body,
   state |-> state]

Reviews ==
  { Review("x", "bob", Zulu(MaxTime), BodyShort, st) : st \in ReviewStates }
  \cup { Review("x", "bob", ts, BodyShort, "APPROVED") : ts \in Stamps }
  \cup { Review("2_x", "bob", Zulu(MaxTime), BodyShort, "CHANGES_REQUESTED") }
  \cup { Review("x", username, Zulu(MaxTime), BodyShort, st) :
           st \in {"APPROVED", "DISMISSED"} }
  \cup { Review("x", "bob", Zulu(MaxTime), b, "COMMENTED") :
           b \in {BodyOverLimit, Missing} }
  \cup { Review(Missing, "bob", Zulu(MaxTime), BodyShort, "APPROVED"),
         Review("x", Missing, Zulu(MaxTime), BodyShort, "APPROVED"),
         Review("x", "bob", Zulu(MaxTime), BodyShort, Missing) }
  \cup { Review("x", "bob", ts, BodyShort, st) :
           ts \in {MissingStamp, BadStamp, Naive(MaxTime)},
           st \in {"APPROVED", "DISMISSED"} }

\* What `gh search prs --json number,title,repository,url` may hold: an item
\* per subject, whole or with one key absent (`keys` are the keys it has).
ItemKeys == {"number", "title", "repository", "nameWithOwner", "url"}

ItemOf(s, keys) ==
  [number |-> s.number, title |-> "t", repository |-> s.repository, url |-> "u",
   keys |-> keys]

Items ==
  { ItemOf(s, keys) :
      s \in Subjects, keys \in {ItemKeys} \cup { ItemKeys \ {k} : k \in ItemKeys } }

\* The raw ids the remote side holds per subject: two comments and a review
\* on o/r#1, one comment on o/r_1#2.  (A record with no 'id' may come with
\* any subject.)
CommentIdsOf(pr) == IF pr.repository = "o/r" THEN {"x", "2_x"} ELSE {"x"}
ReviewIdsOf(pr) == IF pr.repository = "o/r" THEN {"x"} ELSE {}

\* The answers of `gh search prs`: every list of items that names no subject
\* twice.
ItemLists ==
  { data \in UNION { [1..k -> Items] : k \in 0..Cardinality(Subjects) } :
      \A i, j \in 1..Len(data) :
        (data[i].number = data[j].number /\ data[i].repository = data[j].repository)
          => i = j }

\* How a `gh` call ends: subprocess.run(check=True) followed by json.loads.
GhResults == {"ok", "CalledProcessError", "JSONDecodeError"}

\* The identity of a raw event: (origin kind, repository, PR number, raw id).
Identities ==
  { [origin |-> "comment", repository |-> pr.repository, number |-> pr.number,
     id |-> id] : pr \in Subjects, id \in Ids }
  \cup { [origin |-> "review", repository |-> pr.repository, number |-> pr.number,
          id |-> id] : pr \in Subjects, id \in Ids }

\* ------------------------------------------------------------------ state
VARIABLES
  pc,                \* where run() stands
  test_mode,         \* self.test_mode
  blink1,            \* self.blink1: "device", or Null when the connection failed
  released,          \* blink1.off() and blink1.close() were called
  processed_events,  \* self.processed_events: the dedup ledger (a set of keys)
  last_check,        \* self.last_check: the watermark
  now,               \* the last reading of datetime.now(timezone.utc)
  prs,               \* check_for_updates: prs
  pr_idx,            \* check_for_updates: position of `for pr in prs`
  new_events,        \* check_for_updates: new_events
  emit_idx,          \* check_for_updates: events of new_events handed to flash_for_event
  events,            \* get_pr_comments: events
  flash_count,       \* history: calls of flash_for_event per identity
  recorded,          \* history: identities whose key get_pr_comments added to the ledger
  cycle_cutoff,      \* history: last_check when the current cycle began
  fetch_result,      \* history: how get_pr_comments ended, per subject of the cycle
  notify_failed,     \* history: a flash of the current cycle was skipped or failed
  remote,            \* environment: the activities that exist on the remote side
  gh_answer          \* environment: records of the current gh answer not yet passed

vars ==
  << pc, test_mode, blink1, released, processed_events, last_check, now, prs,
     pr_idx, new_events, emit_idx, events, flash_count, recorded, cycle_cutoff,
     fetch_result, notify_failed, remote, gh_answer >>

\* Positions of run() inside its try block, where KeyboardInterrupt is caught.
InTry == {"start", "fetch", "comments", "reviews_call", "reviews", "emit", "sleep"}
\* run() has left its loop.
Terminal == {"cleanup", "stopped", "killed"}

\* ------------------------------------------------- get_pr_comments, pure parts
\* event_id = f"comment_{repo}_{pr_number}_{comment['id']}"
CommentKey(repo, pr_number, id) ==
  "comment_" \o repo \o "_" \o ToString(pr_number) \o "_" \o id

\* event_id = f"review_{repo}_{pr_number}_{review['id']}"
ReviewKey(repo, pr_number, id) ==
  "review_" \o repo \o "_" \o ToString(pr_number) \o "_" \o id

\* The ledger key the code builds for an identity.
KeyOf(i) ==
  IF i.origin = "comment" THEN CommentKey(i.repository, i.number, i.id)
  ELSE ReviewKey(i.repository, i.number, i.id)

\* The comparison with >= in place of >.
IsAfterOrAt(t, cutoff) == t >= cutoff

\* created_at > self.last_check
IsAfter(t, cutoff) == t > cutoff

\* The author filter left out.
AuthorFilterOff(login) == TRUE

\* True if self.test_mode else <login> != self.username
AuthorFilter(login) == IF test_mode THEN TRUE ELSE login # username

\* The ledger lookup left out.
NotProcessedUnchecked(key) == TRUE

\* event_id not in self.processed_events
NotProcessed(key) == key \notin processed_events

\* comment['body'][:100] + '...' if len(comment['body']) > 100 else comment['body']
CommentExcerpt(body) ==
  IF Len(body) > TruncLimit THEN SubSeq(body, 1, TruncLimit) \o "..." ELSE body

\* review.get('body', '')
ReviewBody(body) == IF body = Missing THEN "" ELSE body

\* The if / elif / else over review['state'].
EventTypeOf(state) ==
  IF state = "APPROVED" THEN "approved"
  ELSE IF state = "CHANGES_REQUESTED" THEN "changes_requested"
  ELSE "commented"

\* The state test left out.
IsRecognizedAny(state) == TRUE

\* review['state'] in ['APPROVED', 'CHANGES_REQUESTED', 'COMMENTED']
IsRecognized(state) == state \in {"APPROVED", "CHANGES_REQUESTED", "COMMENTED"}

\* A PREvent.  pr_number, event_type, author, created_at and body are its
\* fields; origin, repository and raw are history: where the event came from.
PREvent(origin, pr, type, raw, stamp, body) ==
  [pr_number |-> pr.number, event_type |-> type, author |-> raw.author,
   created_at |-> stamp, body |-> body,
   origin |-> origin, repository |-> pr.repository, raw |-> raw]

\* The identity of the raw record an event was made from.
IdentityOf(e) ==
  [origin |-> e.origin, repository |-> e.repository, number |-> e.pr_number,
   id |-> e.raw.id]

NoEvent == [pr_number |-> 0]

\* The result of a pass with the ledger key lost.
OutcomeNoKey(result, key, event) == [result |-> result, key |-> "", event |-> event]

\* The result of one pass of a loop: "skip", "event" (with the ledger key and
\* the PREvent) or the name of the exception raised.
Outcome(result, key, event) == [result |-> result, key |-> key, event |-> event]
Skip == Outcome("skip", "", NoEvent)
Raises(exc) == Outcome(exc, "", NoEvent)

\* One pass of `for comment in pr_data['comments']`, in the order the code
\* evaluates: the timestamp, the author filter, the comparison, the key, the
\* ledger, the PREvent.
ClassifyComment(c, pr) ==
  IF c.createdAt.form = "missing" THEN Raises("KeyError")
  ELSE IF c.createdAt.form = "bad" THEN Raises("ValueError")
  ELSE IF ~test_mode /\ c.author = Missing THEN Raises("KeyError")
  ELSE IF ~test_mode /\ c.author = Null THEN Raises("TypeError")
  ELSE IF c.createdAt.form = "naive" THEN Raises("TypeError")
  ELSE IF ~(IsAfter(ParseInstant(c.createdAt), last_check) /\ AuthorFilter(c.author))
    THEN Skip
  ELSE IF c.id = Missing THEN Raises("KeyError")
  ELSE IF ~NotProcessed(CommentKey(pr.repository, pr.number, c.id)) THEN Skip
  ELSE IF c.author = Missing THEN Raises("KeyError")
  ELSE IF c.author = Null THEN Raises("TypeError")
  ELSE IF c.body = Missing THEN Raises("KeyError")
  ELSE IF c.body = Null THEN Raises("TypeError")
  ELSE Outcome("event", CommentKey(pr.repository, pr.number, c.id),
               PREvent("comment", pr, "comment", c, c.createdAt,
                       CommentExcerpt(c.body)))

\* One pass of `for review in pr_data['reviews']`.
ClassifyReview(r, pr) ==
  IF r.state = Missing THEN Raises("KeyError")
  ELSE IF ~IsRecognized(r.state) THEN Skip
  ELSE IF r.submittedAt.form = "missing" THEN Raises("KeyError")
  ELSE IF r.submittedAt.form = "bad" THEN Raises("ValueError")
  ELSE IF ~test_mode /\ r.author = Missing THEN Raises("KeyError")
  ELSE IF r.submittedAt.form = "naive" THEN Raises("TypeError")
  ELSE IF ~(IsAfter(ParseInstant(r.submittedAt), last_check) /\ AuthorFilter(r.author))
    THEN Skip
  ELSE IF r.id = Missing THEN Raises("KeyError")
  ELSE IF ~NotProcessed(ReviewKey(pr.repository, pr.number, r.id)) THEN Skip
  ELSE IF r.author = Missing THEN Raises("KeyError")
  ELSE Outcome("event", ReviewKey(pr.repository, pr.number, r.id),
               PREvent("review", pr, EventTypeOf(r.state), r, r.submittedAt,
                       ReviewBody(r.body)))

\* except (subprocess.CalledProcessError, json.JSONDecodeError, KeyError)
CaughtInFetch(exc) == exc \in {"CalledProcessError", "JSONDecodeError", "KeyError"}

\* ------------------------------------------------------ get_user_prs, pure
\* item['number'], item['title'], item['repository']['nameWithOwner'], item['url']
ItemWhole(item) == ItemKeys \subseteq item.keys

\* The dict get_user_prs appends for an item.
PrOf(item) ==
  [number |-> item.number, title |-> item.title, repository |-> item.repository,
   url |-> item.url]

\* get_user_prs: the list it returns, or the exception that leaves it.
GetUserPrs(result, data) ==
  IF result # "ok" THEN [raised |-> "", prs |-> << >>]
  ELSE IF \E k \in 1..Len(data) : ~ItemWhole(data[k])
    THEN [raised |-> "KeyError", prs |-> << >>]
  ELSE [raised |-> "", prs |-> [k \in 1..Len(data) |-> PrOf(data[k])]]

\* ------------------------------------------------------------------- Init
\* The state after GitHubPRMonitor.__init__: the ledger is empty, the
\* watermark lies LookBack before the clock, the device is connected or not.
Init ==
  /\ pc = "start"
  /\ test_mode \in BOOLEAN
  /\ blink1 \in {"device", Null}
  /\ released = FALSE
  /\ processed_events = {}
  /\ now = StartTime
  /\ last_check = StartTime - LookBack
  /\ prs = << >>
  /\ pr_idx = 0
  /\ new_events = << >>
  /\ emit_idx = 0
  /\ events = << >>
  /\ flash_count = [i \in Identities |-> 0]
  /\ recorded = {}
  /\ cycle_cutoff = StartTime - LookBack
  /\ fetch_result = << >>
  /\ notify_failed = FALSE
  /\ remote = {}
  /\ gh_answer = {}

\* ---------------------------------------------------------------- actions
\* run() without its `except Exception`: the exception ends the loop.
RunExceptExit == pc' = "stopped"

\* An exception leaves check_for_updates: run()'s `except Exception` logs it
\* and goes to sleep.
RunExcept == pc' = "except_sleep"

\* check_for_updates putting the events of a subject before those it holds.
FetchReturnPrepend(evs, how) ==
  /\ new_events' = evs \o new_events
  /\ pr_idx' = pr_idx + 1
  /\ pc' = "fetch"
  /\ events' = << >>
  /\ fetch_result' = Append(fetch_result, IF how = "ok" THEN "ok" ELSE "caught")

\* get_pr_comments returns `evs`; check_for_updates extends new_events and
\* moves to the next pr.
FetchReturn(evs, how) ==
  /\ new_events' = new_events \o evs
  /\ pr_idx' = pr_idx + 1
  /\ pc' = "fetch"
  /\ events' = << >>
  /\ fetch_result' = Append(fetch_result, IF how = "ok" THEN "ok" ELSE "caught")

\* An exception get_pr_comments does not catch leaves it, and the cycle.
FetchRaise(exc) ==
  /\ RunExcept
  /\ events' = << >>
  /\ fetch_result' = Append(fetch_result, "raised")
  /\ UNCHANGED << new_events, pr_idx >>

\* check_for_updates up to its loop over prs: get_user_prs, new_events = [].
Discover(result, data) ==
  /\ pc = "start"
  /\ LET got == GetUserPrs(result, data) IN
       /\ prs' = got.prs
       /\ IF got.raised # "" THEN RunExcept ELSE pc' = "fetch"
  /\ pr_idx' = 1
  /\ new_events' = << >>
  /\ emit_idx' = 0
  /\ cycle_cutoff' = last_check
  /\ fetch_result' = << >>
  /\ notify_failed' = FALSE
  /\ UNCHANGED << test_mode, blink1, released, processed_events, recorded, last_check, now,
                  events, flash_count >>

\* get_pr_comments up to its loop over the comments: events = [], the first
\* `gh pr view`, json.loads, `if 'comments' in pr_data`.
CommentsCall(result, has_key) ==
  /\ pc = "fetch"
  /\ pr_idx <= Len(prs)
  /\ IF result # "ok"
       THEN FetchReturn(<< >>, result)
       ELSE /\ pc' = IF has_key THEN "comments" ELSE "reviews_call"
            /\ events' = << >>
                      /\ UNCHANGED << new_events, pr_idx, fetch_result >>
  /\ UNCHANGED << test_mode, blink1, released, processed_events, recorded, last_check, now,
                  prs, emit_idx, flash_count, cycle_cutoff, notify_failed >>

\* One pass of the loop over the comments, for the next comment c of the answer.
CommentIter(c) ==
  /\ pc = "comments"
  /\ c.id \in CommentIdsOf(prs[pr_idx]) \cup {Missing}
  /\ LET o == ClassifyComment(c, prs[pr_idx]) IN
       IF o.result = "skip" THEN
         /\ UNCHANGED << pc, events, processed_events, recorded, new_events, pr_idx, fetch_result >>
       ELSE IF o.result = "event" THEN
         /\ events' = Append(events, o.event)
         /\ processed_events' = processed_events \cup {o.key}
         /\ recorded' = recorded \cup {IdentityOf(o.event)}
         /\ UNCHANGED << pc, new_events, pr_idx, fetch_result >>
       ELSE IF CaughtInFetch(o.result) THEN
         /\ FetchReturn(events, o.result)
         /\ UNCHANGED << processed_events, recorded >>
       ELSE
         /\ FetchRaise(o.result)
         /\ UNCHANGED << processed_events, recorded >>
  /\ UNCHANGED << test_mode, blink1, released, last_check, now, prs, emit_idx,
                  flash_count, cycle_cutoff, notify_failed >>

\* The loop over the comments ends.
CommentsEnd ==
  /\ pc = "comments"
  /\ pc' = "reviews_call"
  /\ UNCHANGED << test_mode, blink1, released, processed_events, recorded, last_check, now,
                  prs, pr_idx, new_events, emit_idx, events, flash_count,
                  cycle_cutoff, fetch_result, notify_failed >>

\* The second `gh pr view`, json.loads, `if 'reviews' in pr_data`.
ReviewsCall(result, has_key) ==
  /\ pc = "reviews_call"
  /\ IF result # "ok" THEN FetchReturn(events, result)
     ELSE IF ~has_key THEN FetchReturn(events, "ok")
     ELSE /\ pc' = "reviews"
                  /\ UNCHANGED << new_events, pr_idx, events, fetch_result >>
  /\ UNCHANGED << test_mode, blink1, released, processed_events, recorded, last_check, now,
                  prs, emit_idx, flash_count, cycle_cutoff, notify_failed >>

\* One pass of the loop over the reviews, for the next review r of the answer.
ReviewIter(r) ==
  /\ pc = "reviews"
  /\ r.id \in ReviewIdsOf(prs[pr_idx]) \cup {Missing}
  /\ LET o == ClassifyReview(r, prs[pr_idx]) IN
       IF o.result = "skip" THEN
         /\ UNCHANGED << pc, events, processed_events, recorded, new_events, pr_idx, fetch_result >>
       ELSE IF o.result = "event" THEN
         /\ events' = Append(events, o.event)
         /\ processed_events' = processed_events \cup {o.key}
         /\ recorded' = recorded \cup {IdentityOf(o.event)}
         /\ UNCHANGED << pc, new_events, pr_idx, fetch_result >>
       ELSE IF CaughtInFetch(o.result) THEN
         /\ FetchReturn(events, o.result)
         /\ UNCHANGED << processed_events, recorded >>
       ELSE
         /\ FetchRaise(o.result)
         /\ UNCHANGED << processed_events, recorded >>
  /\ UNCHANGED << test_mode, blink1, released, last_check, now, prs, emit_idx,
                  flash_count, cycle_cutoff, notify_failed >>

\* The loop over the reviews ends: get_pr_comments returns events.
ReviewsEnd ==
  /\ pc = "reviews"
  /\ FetchReturn(events, "ok")
  /\ UNCHANGED << test_mode, blink1, released, processed_events, recorded, last_check, now,
                  prs, emit_idx, flash_count, cycle_cutoff, notify_failed >>

\* `for pr in prs` is exhausted: on to `for event in new_events`.
FetchDone ==
  /\ pc = "fetch"
  /\ pr_idx > Len(prs)
  /\ pc' = "emit"
  /\ UNCHANGED << test_mode, blink1, released, processed_events, recorded, last_check, now,
                  prs, pr_idx, new_events, emit_idx, events, flash_count,
                  cycle_cutoff, fetch_result, notify_failed >>

\* ---------------------------------------------------------- flash_for_event
\* What play_pattern may do when the device is connected.
DeviceAnswers == {"ok", "raise"}

\* The pattern flash_for_event plays for an event type.
PatternOf(event_type) ==
  IF event_type = "comment" THEN "3, #0000FF,0.3,0, #000000,0.3,0"
  ELSE IF event_type = "approved" THEN "5, #00FF00,0.5,0, #000000,0.2,0"
  ELSE IF event_type = "changes_requested" THEN "2, #FF0000,1.0,0, #000000,0.5,0"
  ELSE IF event_type = "commented" THEN "3, #FFFF00,0.3,0, #000000,0.3,0"
  ELSE ""

\* flash_for_event without its device test and its try / except.
FlashForEventUncaught(event, answer) ==
  IF blink1 = Null \/ answer = "raise" THEN "raised" ELSE "played"

\* flash_for_event: "unavailable" (no device: warn and return), "nothing" (no
\* branch for the event type), "played", "failed" (play_pattern raised,
\* `except Exception` logged it), or "raised" (an exception leaves the
\* function).
FlashForEvent(event, answer) ==
  IF blink1 = Null THEN "unavailable"
  ELSE IF PatternOf(event.event_type) = "" THEN "nothing"
  ELSE IF answer = "raise" THEN "failed"
  ELSE "played"

\* One pass of `for event in new_events`: flash_for_event, time.sleep(2).
EmitIter(answer) ==
  /\ pc = "emit"
  /\ emit_idx < Len(new_events)
  /\ LET event == new_events[emit_idx + 1]
         o == FlashForEvent(event, answer)
     IN  /\ flash_count' = [flash_count EXCEPT ![IdentityOf(event)] = @ + 1]
         /\ notify_failed' = (notify_failed \/ o \in {"unavailable", "failed", "raised"})
         /\ IF o = "raised"
              THEN RunExcept /\ UNCHANGED emit_idx
              ELSE emit_idx' = emit_idx + 1 /\ UNCHANGED pc
  /\ UNCHANGED << test_mode, blink1, released, processed_events, recorded, last_check, now,
                  prs, pr_idx, new_events, events, cycle_cutoff,
                  fetch_result >>

\* check_for_updates with the watermark written only after a cycle that found
\* events.
AdvanceIfEvents(t) ==
  /\ pc = "emit"
  /\ emit_idx = Len(new_events)
  /\ t >= now
  /\ now' = t
  /\ last_check' = IF new_events = << >> THEN last_check ELSE t
  /\ pc' = "sleep"
  /\ UNCHANGED << test_mode, blink1, released, processed_events, recorded, prs, pr_idx,
                  new_events, emit_idx, events, flash_count, cycle_cutoff,
                  fetch_result, notify_failed >>

\* check_for_updates with the watermark written without waiting for the loop
\* over new_events to end.
AdvanceEarly(t) ==
  /\ pc = "emit"
  /\ t >= now
  /\ now' = t
  /\ last_check' = t
  /\ pc' = IF emit_idx = Len(new_events) THEN "sleep" ELSE "emit"
  /\ UNCHANGED << test_mode, blink1, released, processed_events, recorded, prs, pr_idx,
                  new_events, emit_idx, events, flash_count, cycle_cutoff,
                  fetch_result, notify_failed >>

\* self.last_check = datetime.now(timezone.utc), where the clock reads t, not
\* less than its last reading; check_for_updates returns and run() enters
\* time.sleep(self.poll_interval).
Advance(t) ==
  /\ pc = "emit"
  /\ emit_idx = Len(new_events)
  /\ t >= now
  /\ now' = t
  /\ last_check' = t
  /\ pc' = "sleep"
  /\ UNCHANGED << test_mode, blink1, released, processed_events, recorded, prs, pr_idx,
                  new_events, emit_idx, events, flash_count, cycle_cutoff,
                  fetch_result, notify_failed >>

\* The locals of a finished call of check_for_updates are gone.
NextCycle ==
  /\ pc' = "start"
  /\ prs' = << >>
  /\ pr_idx' = 0
  /\ new_events' = << >>
  /\ emit_idx' = 0
  /\ fetch_result' = << >>
  /\ notify_failed' = FALSE
  /\ UNCHANGED << test_mode, blink1, released, processed_events, recorded, last_check, now,
                  events, flash_count, cycle_cutoff >>

\* time.sleep(self.poll_interval) after a cycle that returned.
Sleep == pc = "sleep" /\ NextCycle

\* time.sleep(self.poll_interval) in the `except Exception` handler.
ExceptSleep == pc = "except_sleep" /\ NextCycle

\* KeyboardInterrupt (the external stop signal).  Inside the try block it is
\* caught and the loop is left by `break`; raised in the handler's sleep it
\* is caught by nothing and leaves run().  Either way the cycle's locals are
\* gone.
KeyboardInterrupt ==
  /\ pc \in InTry \cup {"except_sleep"}
  /\ pc' = IF pc \in InTry THEN "cleanup" ELSE "killed"
  /\ prs' = << >>
  /\ pr_idx' = 0
  /\ new_events' = << >>
  /\ emit_idx' = 0
  /\ events' = << >>
  /\ fetch_result' = << >>
  /\ notify_failed' = FALSE
  /\ UNCHANGED << test_mode, blink1, released, processed_events, recorded, last_check, now,
                  flash_count, cycle_cutoff >>

\* if self.blink1: self.blink1.off(); self.blink1.close() -- and run() returns.
Cleanup ==
  /\ pc = "cleanup"
  /\ released' = (blink1 # Null)
  /\ pc' = "stopped"
  /\ UNCHANGED << test_mode, blink1, processed_events, recorded, last_check, now, prs, pr_idx,
                  new_events, emit_idx, events, flash_count, cycle_cutoff,
                  fetch_result, notify_failed >>

\* The remote side is not followed: the answers of gh are drawn freely.
Quiet == UNCHANGED << remote, gh_answer >>

Next ==
  \/ \E result \in GhResults, data \in ItemLists : Discover(result, data) /\ Quiet
  \/ \E result \in GhResults, has_key \in BOOLEAN : CommentsCall(result, has_key) /\ Quiet
  \/ \E c \in Comments : CommentIter(c) /\ Quiet
  \/ CommentsEnd /\ Quiet
  \/ \E result \in GhResults, has_key \in BOOLEAN : ReviewsCall(result, has_key) /\ Quiet
  \/ \E r \in Reviews : ReviewIter(r) /\ Quiet
  \/ ReviewsEnd /\ Quiet
  \/ FetchDone /\ Quiet
  \/ \E answer \in DeviceAnswers : EmitIter(answer) /\ Quiet
  \/ \E t \in StartTime..MaxTime : Advance(t) /\ Quiet
  \/ Sleep /\ Quiet
  \/ ExceptSleep /\ Quiet
  \/ KeyboardInterrupt /\ Quiet
  \/ Cleanup /\ Quiet

Spec == Init /\ [][Next]_vars

\* ------------------------------------------------- the remote side, followed
\* A second specification for what the monitor does in the long run.  Here
\* the remote side is part of the state: activities are created as time
\* passes and stay; the clock `now` is the one both sides read; every gh call
\* succeeds and answers with what exists when it is made; the subjects stay
\* open; the stop signal does not come.

\* An activity on the remote side: a well-formed record by another author on
\* subject s, stamped with the instant t of its creation.
RemoteComment(s, t) ==
  [origin |-> "comment", repository |-> s.repository, number |-> s.number,
   rec |-> Comment("x", "bob", Zulu(t), BodyShort)]

RemoteReview(s, t) ==
  [origin |-> "review", repository |-> s.repository, number |-> s.number,
   rec |-> Review("x", "bob", Zulu(t), BodyShort, "APPROVED")]

\* The activities that may be created at instant t.
Creatable(t) ==
  { RemoteComment(s, t) : s \in Subjects }
  \cup { RemoteReview(s, t) : s \in { p \in Subjects : "x" \in ReviewIdsOf(p) } }

\* The identity of an activity.
ActivityIdentity(a) ==
  [origin |-> a.origin, repository |-> a.repository, number |-> a.number,
   id |-> a.rec.id]

\* What `gh pr view --json comments` (or reviews) of pr holds now.
AnswerFor(origin, pr) ==
  { a.rec : a \in { b \in remote : /\ b.origin = origin
                                   /\ b.repository = pr.repository
                                   /\ b.number = pr.number } }

\* `gh search prs` lists every subject, whole, in some order.
LiveItemLists ==
  { data \in ItemLists :
      Len(data) = Cardinality(Subjects) /\ \A k \in 1..Len(data) : ItemWhole(data[k]) }

\* Time passes.
Tick ==
  /\ now < MaxTime
  /\ now' = now + 1
  /\ UNCHANGED << pc, test_mode, blink1, released, processed_events, last_check, prs,
                  pr_idx, new_events, emit_idx, events, flash_count, recorded,
                  cycle_cutoff, fetch_result, notify_failed, remote, gh_answer >>

\* Somebody comments on, or reviews, an open subject: the activity is stamped
\* with its own instant, later than every reading of the clock so far.
Create(a) ==
  /\ now < MaxTime
  /\ a \in Creatable(now + 1)
  /\ \A b \in remote : ActivityIdentity(b) # ActivityIdentity(a)
  /\ now' = now + 1
  /\ remote' = remote \cup {a}
  /\ UNCHANGED << pc, test_mode, blink1, released, processed_events, last_check, prs,
                  pr_idx, new_events, emit_idx, events, flash_count, recorded,
                  cycle_cutoff, fetch_result, notify_failed, gh_answer >>

LiveDiscover ==
  /\ \E data \in LiveItemLists : Discover("ok", data)
  /\ Quiet

\* The first gh call answers with the comments that exist now.
LiveCommentsCall ==
  /\ CommentsCall("ok", TRUE)
  /\ gh_answer' = AnswerFor("comment", prs[pr_idx])
  /\ UNCHANGED remote

\* The loop passes over each record of the answer once.
LiveCommentIter ==
  /\ \E c \in gh_answer : CommentIter(c) /\ gh_answer' = gh_answer \ {c}
  /\ UNCHANGED remote

LiveCommentsEnd ==
  /\ gh_answer = {}
  /\ CommentsEnd
  /\ Quiet

\* The second gh call answers with the reviews that exist now.
LiveReviewsCall ==
  /\ ReviewsCall("ok", TRUE)
  /\ gh_answer' = AnswerFor("review", prs[pr_idx])
  /\ UNCHANGED remote

LiveReviewIter ==
  /\ \E r \in gh_answer : ReviewIter(r) /\ gh_answer' = gh_answer \ {r}
  /\ UNCHANGED remote

LiveReviewsEnd ==
  /\ gh_answer = {}
  /\ ReviewsEnd
  /\ Quiet

LiveFetchDone == FetchDone /\ Quiet

LiveEmitIter == \E answer \in DeviceAnswers : EmitIter(answer) /\ Quiet

\* self.last_check = datetime.now(timezone.utc): the clock reads `now`.
LiveAdvance == Advance(now) /\ Quiet

LiveSleep == Sleep /\ Quiet

\* A step of the monitor.
Program ==
  \/ LiveDiscover
  \/ LiveCommentsCall
  \/ LiveCommentIter
  \/ LiveCommentsEnd
  \/ LiveReviewsCall
  \/ LiveReviewIter
  \/ LiveReviewsEnd
  \/ LiveFetchDone
  \/ LiveEmitIter
  \/ LiveAdvance
  \/ LiveSleep

LiveNext ==
  \/ LiveDiscover
  \/ LiveCommentsCall
  \/ LiveCommentIter
  \/ LiveCommentsEnd
  \/ LiveReviewsCall
  \/ LiveReviewIter
  \/ LiveReviewsEnd
  \/ LiveFetchDone
  \/ LiveEmitIter
  \/ LiveAdvance
  \/ LiveSleep
  \/ Tick
  \/ \E t \in (StartTime + 1)..MaxTime : \E a \in Creatable(t) : Create(a)

\* The monitor, a single thread that nothing stops, always takes its next
\* step, and time does not stand still.
LiveSpec == Init /\ [][LiveNext]_vars /\ WF_vars(Program) /\ WF_vars(Tick)

\* ================================================================== claims
\* Events the current cycle holds: those of the running get_pr_comments and
\* those collected for emission.
CycleEvents ==
  { events[k] : k \in 1..Len(events) } \cup { new_events[k] : k \in 1..Len(new_events) }

\* A cycle is over: check_for_updates returned, or an exception left it.
CycleOver == pc \in {"sleep", "except_sleep"}

\* Every key-bearing field of a comment is present and its timestamp parses
\* to an aware datetime.
WellFormedComment(c) ==
  /\ c.id # Missing
  /\ c.author \notin {Missing, Null}
  /\ c.body \notin {Missing, Null}
  /\ c.createdAt.form \in {"Z", "offset"}

WellFormedReview(r) ==
  /\ r.id # Missing
  /\ r.author \notin {Missing, Null}
  /\ r.state # Missing
  /\ r.submittedAt.form \in {"Z", "offset"}

\* ---- C1
\* C1 (at-most-once): for every event identity (origin kind, repository, PR
\* number, raw id), flash_for_event is called at most once in the whole run,
\* whatever the fetches return and whichever cycles fail in between.
C1_AtMostOnce == \A i \in Identities : flash_count[i] <= 1

\* A later cycle is fetching the comments of o/r#1 again while comment "x",
\* flashed once, is in the ledger and the watermark still lies before MaxTime,
\* so a re-fetched "x" stamped MaxTime passes the cutoff and meets the ledger.
C1_Witness ==
  LET i == [origin |-> "comment", repository |-> "o/r", number |-> 1, id |-> "x"] IN
    /\ pc = "comments"
    /\ prs[pr_idx].repository = "o/r"
    /\ flash_count[i] = 1
    /\ KeyOf(i) \in processed_events
    /\ last_check < MaxTime
    /\ events = << >>

\* ---- C2
\* C2 (cutoff correctness): every event a cycle collects or emits has a
\* timestamp (createdAt / submittedAt, as an instant) strictly after the
\* watermark the cycle began with; none at or before it is emitted.
C2_CutoffCorrect ==
  \A e \in CycleEvents : ParseInstant(e.created_at) > cycle_cutoff

\* An event right behind the cutoff has been handed to flash_for_event.
C2_Witness ==
  /\ pc = "emit"
  /\ emit_idx >= 1
  /\ ParseInstant(new_events[1].created_at) = cycle_cutoff + 1

\* ---- C3
FetchFailed == \E k \in 1..Len(fetch_result) : fetch_result[k] # "ok"
FetchSucceeded == \E k \in 1..Len(fetch_result) : fetch_result[k] = "ok"

\* C3 (degradation): when, in one cycle, the fetch of one subject fails and
\* that of another succeeds, the cycle ends with the events it collected all
\* emitted and the watermark advanced.
C3_Degradation ==
  (CycleOver /\ FetchFailed /\ FetchSucceeded)
    => (pc = "sleep" /\ emit_idx = Len(new_events) /\ last_check = now)

\* ---- C4
\* The pr get_pr_comments is working on.
CurrentPr == prs[pr_idx]

\* C4, as the spec states it: in test mode every activity of the monitored
\* user that is after the cutoff and not in the ledger produces an event.
C4_OwnActivityAlwaysEvent ==
  (test_mode /\ pc = "reviews") =>
    \A r \in Reviews :
      ( /\ r.author = username
        /\ WellFormedReview(r)
        /\ ParseInstant(r.submittedAt) > last_check
        /\ ReviewKey(CurrentPr.repository, CurrentPr.number, r.id) \notin processed_events )
      => ClassifyReview(r, CurrentPr).result = "event"

\* The pass over record x yields an event made from x, by the monitored user.
YieldsOwnEvent(o, x) ==
  /\ o.result = "event"
  /\ o.event.raw = x
  /\ o.event.author = username

\* C4 (self-filter, amended): outside test mode no event is by the monitored
\* user and a pass over one of its records yields no event (so nothing for
\* the notifier and no ledger entry); in test mode a well-formed record of
\* the monitored user that is after the cutoff, whose key is not in the
\* ledger and which, if a review, is in a recognized state, yields an event.
C4_SelfFilter ==
  /\ ~test_mode => \A e \in CycleEvents : e.author # username
  /\ pc = "comments" =>
       \A c \in Comments :
         c.author = username =>
           IF ~test_mode THEN ClassifyComment(c, CurrentPr).result # "event"
           ELSE ( /\ WellFormedComment(c)
                  /\ ParseInstant(c.createdAt) > last_check
                  /\ CommentKey(CurrentPr.repository, CurrentPr.number, c.id)
                       \notin processed_events )
                => YieldsOwnEvent(ClassifyComment(c, CurrentPr), c)
  /\ pc = "reviews" =>
       \A r \in Reviews :
         r.author = username =>
           IF ~test_mode THEN ClassifyReview(r, CurrentPr).result # "event"
           ELSE ( /\ WellFormedReview(r)
                  /\ r.state \in {"APPROVED", "CHANGES_REQUESTED", "COMMENTED"}
                  /\ ParseInstant(r.submittedAt) > last_check
                  /\ ReviewKey(CurrentPr.repository, CurrentPr.number, r.id)
                       \notin processed_events )
                => YieldsOwnEvent(ClassifyReview(r, CurrentPr), r)

\* In test mode an event by the monitored user has been flashed.
C4_Witness ==
  /\ test_mode
  /\ pc = "emit"
  /\ emit_idx >= 1
  /\ new_events[1].author = username

\* ---- C5
KindOfState(state) ==
  CASE state = "APPROVED" -> "approved"
    [] state = "CHANGES_REQUESTED" -> "changes_requested"
    [] state = "COMMENTED" -> "commented"
    [] OTHER -> "none"

ExpectedExcerpt(body) ==
  IF Len(body) <= TruncLimit THEN body ELSE SubSeq(body, 1, TruncLimit) \o "..."

\* C6 (excerpt truncation): the excerpt of every event, made from a comment
\* or from a review, is the expected excerpt of the raw body.
C6_ExcerptTruncation ==
  \A e \in CycleEvents :
    e.raw.body \notin {Missing, Null} => e.body = ExpectedExcerpt(e.raw.body)

\* ---- C7
\* Some identity with this ledger key was handed to flash_for_event once.
FlashedOnce(key) == \E i \in Identities : KeyOf(i) = key /\ flash_count[i] = 1

\* C7 (first-seen emission): when a cycle is over, every comment whose key
\* the ledger holds has had exactly one call of flash_for_event: the cycle
\* that recorded it notified it once, and no later cycle did again.
C7_FirstSeenNotifiedOnce ==
  CycleOver =>
    \A i \in Identities :
      (i.origin = "comment" /\ KeyOf(i) \in processed_events) => FlashedOnce(KeyOf(i))

\* ---- C8
\* C8 (the loop survives collaborator errors): run() leaves its loop only by
\* a KeyboardInterrupt step, and the handler's sleep that follows a failed
\* cycle leads to the start of another cycle unless the interrupt comes.
C8_LoopSurvives ==
  [][ /\ (pc \notin Terminal /\ pc' \in Terminal) => KeyboardInterrupt
      /\ pc = "except_sleep" => pc' \in {"start", "killed"} ]_vars

\* A cycle is running after an earlier one was aborted: the ledger holds a key
\* that no call of flash_for_event has seen, and no event is pending.
C8_Witness ==
  /\ pc = "fetch"
  /\ new_events = << >>
  /\ \E key \in processed_events : \A i \in Identities : KeyOf(i) = key => flash_count[i] = 0

\* ---- C9
\* C9 (cancellation ends in STOPPED with cleanup): once run() has left its
\* loop for good, it has returned after the cleanup block, which released the
\* device when there is one.
C9_CancelCleansUp ==
  pc \in {"stopped", "killed"} => (pc = "stopped" /\ released = (blink1 # Null))

\* ---- C10
\* C10 (notifier unavailability is never fatal): a flash that was skipped
\* (no device) or failed (play_pattern raised) leaves the cycle in its
\* emission loop with that event counted as handled, and when that cycle ends
\* every event was handled and the watermark was set to the clock.
C10_NotifierNeverFatal ==
  notify_failed =>
    /\ pc \in {"emit", "sleep"}
    /\ emit_idx >= 1
    /\ pc = "sleep" => (emit_idx = Len(new_events) /\ last_check = now)

\* On a connected device a flash failed, and the cycle went on to handle a
\* further event and to advance the watermark.
C10_Witness ==
  /\ blink1 # Null
  /\ notify_failed
  /\ pc = "sleep"
  /\ Len(new_events) >= 2
  /\ last_check > cycle_cutoff

\* ---- C11
\* C11 (ADVANCING always executes): a cycle that has reached the loop over
\* new_events leaves it only for the sleep that follows check_for_updates
\* (or by the stop signal); each pass of the loop handles one more event,
\* whether its flash worked or not, and the step that leaves it is taken with
\* every event handled and sets the watermark to the clock just read -- also
\* when there was no event at all.
C11_AdvancingAlwaysExecutes ==
  [][ (pc = "emit" /\ ~KeyboardInterrupt) =>
        \/ pc' = "emit" /\ emit_idx' = emit_idx + 1 /\ last_check' = last_check
        \/ /\ pc' = "sleep"
           /\ emit_idx = Len(new_events)
           /\ last_check' = now'
           /\ now' >= now ]_vars

\* A cycle over one subject found no event and has set the watermark to a
\* later reading of the clock.
C11_Witness ==
  /\ pc = "sleep"
  /\ Len(prs) = 1
  /\ new_events = << >>
  /\ last_check = now
  /\ last_check > StartTime

\* ---- C12
\* The positions of a cycle between discovery and the write of the watermark.
InCycle == {"fetch", "comments", "reviews_call", "reviews", "emit"}

\* C12 (the watermark only moves forward, and only at the end of a cycle): no
\* step lowers last_check; the only step that changes it is the one that
\* leaves the loop over new_events with every event handled; and throughout a
\* cycle -- discovery, every fetch and classification, every emission -- it
\* is the cutoff the cycle began with, the same for all subjects.
C12_WatermarkMonotone ==
  [][ /\ last_check' >= last_check
      /\ last_check' # last_check =>
           (pc = "emit" /\ emit_idx = Len(new_events) /\ pc' = "sleep")
      /\ pc' \in InCycle => last_check' = cycle_cutoff' ]_vars

\* A later cycle, begun with a watermark that has moved, is classifying the
\* comments of its second subject with events of the first already collected.
C12_Witness ==
  /\ pc = "comments"
  /\ pr_idx = 2
  /\ new_events # << >>
  /\ last_check >= StartTime
  /\ last_check = cycle_cutoff

\* ---- C13
\* The event was made from a record of subject pr.
EventOf(e, pr) == e.repository = pr.repository /\ e.pr_number = pr.number

\* C13 (a failed subject contributes nothing): in a cycle, a subject whose
\* get_pr_comments did not end well -- a gh call failed, its output did not
\* parse, or an exception ended a loop -- has no event among those the cycle
\* emits (and so none of its identities went to the ledger in that cycle).
C13_FailedSubjectContributesNothing ==
  \A k \in 1..Len(fetch_result) :
    fetch_result[k] # "ok" =>
      \A n \in 1..Len(new_events) : ~EventOf(new_events[n], prs[k])

\* ---- C14
\* A record that lacks a field the code requires.
CommentMissesField(c) ==
  c.id = Missing \/ c.author = Missing \/ c.body = Missing \/ c.createdAt.form = "missing"

ReviewMissesField(r) ==
  r.id = Missing \/ r.author = Missing \/ r.state = Missing \/ r.submittedAt.form = "missing"

\* C14 (a malformed record is skipped alone): a pass of a loop of
\* get_pr_comments over a record that lacks a required field leaves the loop
\* running with the events collected so far, so that the records after it
\* (later comments, and all reviews) are still read and classified.
C14_MalformedSkippedAlone ==
  [][ /\ \A c \in Comments :
           (CommentMissesField(c) /\ CommentIter(c)) => (pc' = "comments" /\ events' = events)
      /\ \A r \in Reviews :
           (ReviewMissesField(r) /\ ReviewIter(r)) => (pc' = "reviews" /\ events' = events) ]_vars

\* ---- C15
\* Listing the open subjects fails: the command fails, its output does not
\* parse, or a listed item lacks a field.
DiscoveryFails(result, data) ==
  result # "ok" \/ \E k \in 1..Len(data) : ~ItemWhole(data[k])

\* C15 (a failed discovery degrades to zero subjects): a discovery that fails
\* starts a cycle over no subject, and a cycle over no subject makes no fetch,
\* collects no event, leaves the ledger as it is and ends by setting the
\* watermark to the clock.
C15_DiscoveryDegrades ==
  [][ /\ pc = "start" =>
           \A result \in GhResults, data \in ItemLists :
             (DiscoveryFails(result, data) /\ Discover(result, data))
               => (pc' = "fetch" /\ prs' = << >>)
      /\ (pc \in InCycle /\ prs = << >> /\ ~KeyboardInterrupt) =>
           /\ pc' \in {"emit", "sleep"}
           /\ new_events' = << >>
           /\ processed_events' = processed_events
           /\ pc' = "sleep" => last_check' = now' ]_vars

\* ---- C16
\* The place in the discovery order of the subject an event belongs to.
SubjectIndex(e) == CHOOSE k \in 1..Len(prs) : EventOf(e, prs[k])

\* Comments are fetched before reviews.
OriginRank(e) == IF e.origin = "comment" THEN 1 ELSE 2

\* The events of list evs stand in fetch order: by subject in discovery
\* order, and comments before reviews within a subject.
InFetchOrder(evs) ==
  \A m, n \in 1..Len(evs) :
    m < n =>
      \/ SubjectIndex(evs[m]) < SubjectIndex(evs[n])
      \/ /\ SubjectIndex(evs[m]) = SubjectIndex(evs[n])
         /\ OriginRank(evs[m]) <= OriginRank(evs[n])

\* C16 (emission order): the events of a cycle stand in fetch order -- an
\* earlier discovered subject first, comments before reviews within a subject
\* -- because each loop appends the event of its pass at the end of the list
\* and each returned list goes to the end of new_events; and the notifier is
\* called for them in the order of that list, one call (with its pause) per
\* pass.
C16_EmissionOrder ==
  /\ [](InFetchOrder(new_events \o events))
  /\ [][ /\ events' # events =>
              \/ events' = << >>
              \/ /\ Len(events') = Len(events) + 1
                 /\ SubSeq(events', 1, Len(events)) = events
                 /\ pc \in {"comments", "reviews"}
                 /\ OriginRank(events'[Len(events')]) = (IF pc = "comments" THEN 1 ELSE 2)
                 /\ EventOf(events'[Len(events')], prs[pr_idx])
         /\ new_events' # new_events =>
              (new_events' = << >> \/ new_events' = new_events \o events)
         /\ emit_idx' # emit_idx =>
              \/ emit_idx' = 0
              \/ /\ emit_idx' = emit_idx + 1
                 /\ new_events' = new_events
                 /\ LET i == IdentityOf(new_events[emit_idx']) IN
                      flash_count' = [flash_count EXCEPT ![i] = @ + 1]
         /\ flash_count' # flash_count => emit_idx' = emit_idx + 1 ]_vars

\* Three events were emitted: a comment and a review of the first subject,
\* then a comment of the second.
C16_Witness ==
  /\ pc = "emit"
  /\ emit_idx = 3
  /\ Len(new_events) = 3
  /\ new_events[1].origin = "comment"
  /\ new_events[2].origin = "review"
  /\ EventOf(new_events[2], prs[1])
  /\ EventOf(new_events[3], prs[2])

\* ---- C17
\* The events of the cycle in the order they were made.
CycleEventSeq == new_events \o events

\* C17 (ledger before emit): every event a cycle holds -- so every event the
\* notifier is called for -- has the key of its identity in the ledger from
\* the pass that made it; no two events of a cycle have the same identity;
\* and a pass over a record from which the cycle already made an event (the
\* record came twice in the fetch results) makes no second event.
C17_LedgerBeforeEmit ==
  /\ \A e \in CycleEvents :
       KeyOf(IdentityOf(e)) \in processed_events /\ IdentityOf(e) \in recorded
  /\ \A m, n \in 1..Len(CycleEventSeq) :
       IdentityOf(CycleEventSeq[m]) = IdentityOf(CycleEventSeq[n]) => m = n
  /\ pc = "comments" =>
       \A c \in Comments :
         (\E e \in CycleEvents :
            e.origin = "comment" /\ EventOf(e, CurrentPr) /\ e.raw.id = c.id)
           => ClassifyComment(c, CurrentPr).result # "event"
  /\ pc = "reviews" =>
       \A r \in Reviews :
         (\E e \in CycleEvents :
            e.origin = "review" /\ EventOf(e, CurrentPr) /\ e.raw.id = r.id)
           => ClassifyReview(r, CurrentPr).result # "event"

\* The comments loop has made an event from comment "x" and is still running
\* under a watermark before MaxTime: the answer may hold "x" once more, and
\* the notifier has not been called for it yet.
C17_Witness ==
  /\ pc = "comments"
  /\ Len(events) = 1
  /\ events[1].raw.id = "x"
  /\ KeyOf(IdentityOf(events[1])) \in processed_events
  /\ flash_count[IdentityOf(events[1])] = 0
  /\ last_check < MaxTime

\* ---- C18
\* The identity of a raw record fetched for subject pr.
RecordIdentity(origin, x, pr) ==
  [origin |-> origin, repository |-> pr.repository, number |-> pr.number, id |-> x.id]

\* C18 (identity is exactly the four components): a well-formed record that
\* passes the cutoff and the author filter (and, for a review, the state
\* gate) is suppressed by the ledger exactly when a record of the same origin
\* kind, repository, PR number and raw id was recorded before -- never because
\* of a record that differs in one of the four.
C18_IdentityExact ==
  /\ pc = "comments" =>
       \A c \in Comments :
         ( /\ c.id \in CommentIdsOf(CurrentPr)
           /\ WellFormedComment(c)
           /\ ParseInstant(c.createdAt) > last_check
           /\ AuthorFilter(c.author) )
         => ( ClassifyComment(c, CurrentPr).result = "skip"
                <=> RecordIdentity("comment", c, CurrentPr) \in recorded )
  /\ pc = "reviews" =>
       \A r \in Reviews :
         ( /\ r.id \in ReviewIdsOf(CurrentPr)
           /\ WellFormedReview(r)
           /\ IsRecognized(r.state)
           /\ ParseInstant(r.submittedAt) > last_check
           /\ AuthorFilter(r.author) )
         => ( ClassifyReview(r, CurrentPr).result = "skip"
                <=> RecordIdentity("review", r, CurrentPr) \in recorded )

\* ---- C19
\* C19 (no silent loss by the ledger): when a cycle has ended or was aborted,
\* every identity recorded in the ledger, of a comment or of a review, has
\* been handed to flash_for_event exactly once.
C19_NoSilentLoss ==
  CycleOver => \A i \in recorded : flash_count[i] = 1

\* ---- C20
\* The activities that may ever exist: created after the start, so after the
\* first watermark.
Activities == UNION { Creatable(t) : t \in (StartTime + 1)..MaxTime }

\* C20 (eventual notification): with the clocks in agreement and every
\* discovery and fetch succeeding, every activity of another author on an
\* open subject is, from its creation on, eventually handed to
\* flash_for_event -- whenever it was created, also between the fetch of its
\* subject and the write of the watermark.
C20_EventualNotification ==
  \A a \in Activities :
    (a \in remote) ~> (flash_count[ActivityIdentity(a)] >= 1)
====
